---- MODULE Spec2Model ----
(***************************************************************************)
(* Model of the query-translation core of shaystack / haystackapi:         *)
(*   - the scalar codec and grid dumper   (haystackapi/jsondumper.py)      *)
(*   - the SQL filter compiler            (haystackapi/providers/db_sqlite)*)
(*   - the Mongo filter compiler          (shaystack/providers/db_mongo)   *)
(*                                                                         *)
(* Text is modelled as a sequence of tokens.  A Python string fragment is  *)
(* the sequence of its tokens, "".join is concatenation, and s[:-1] drops  *)
(* the last token (which in every use is the one-character newline).       *)
(***************************************************************************)
EXTENDS Integers, Sequences, FiniteSets, TLC

VARIABLES pc, input, output, table, now, calls

vars == <<pc, input, output, table, now, calls>>

(***************************************************************************)
(* Generic helpers                                                         *)
(***************************************************************************)
RECURSIVE Join(_)
\* "".join(l) for a list l of fragments
Join(l) == IF l = <<>> THEN <<>> ELSE Head(l) \o Join(Tail(l))

\* s[:-1]
ButLast(s) == IF s = <<>> THEN <<>> ELSE SubSeq(s, 1, Len(s) - 1)

Last(s) == s[Len(s)]

Range(s) == {s[i] : i \in 1..Len(s)}

Count(s, P(_)) == Cardinality({i \in 1..Len(s) : P(s[i])})

(***************************************************************************)
(* Time.  An instant is a day and a second of that day.  Three textual     *)
(* forms occur: datetime.isoformat() separates date and time by 'T'        *)
(* (0x54), SQLite's datetime() and the sqlite3 parameter adapter separate  *)
(* them by ' ' (0x20).  SQLite compares TEXT bytewise, left to right.      *)
(***************************************************************************)
NoTime == [d |-> 0, s |-> 0]

\* '9999-12-31T23:59:59', the end of an open validity window
EndOfTime == [d |-> 9999, s |-> 86399]

\* datetime.isoformat(): 'YYYY-MM-DDTHH:MM:SS'
isoformat(t) == <<t.d, 84, t.s>>

\* SQLite datetime(x): 'YYYY-MM-DD HH:MM:SS'
sql_datetime(t) == <<t.d, 32, t.s>>

\* a datetime bound to a '?' placeholder: str(datetime), 'YYYY-MM-DD HH:MM:SS'
sql_bind(t) == <<t.d, 32, t.s>>

\* bytewise comparison of two such texts
TextLe(x, y) ==
    \/ x[1] < y[1]
    \/ x[1] = y[1] /\ x[2] < y[2]
    \/ x[1] = y[1] /\ x[2] = y[2] /\ x[3] <= y[3]

TextLt(x, y) == TextLe(x, y) /\ x # y

\* x BETWEEN lo AND hi  ==  x >= lo AND x <= hi
BETWEEN(x, lo, hi) == TextLe(lo, x) /\ TextLe(x, hi)

\* the order of the instants themselves
TimeLe(t, u) == t.d < u.d \/ (t.d = u.d /\ t.s <= u.s)

TimeLt(t, u) == TimeLe(t, u) /\ t # u

(***************************************************************************)
(* Haystack scalar values (the filter literals and the grid cells)         *)
(***************************************************************************)
None == [kind |-> "None"]

MARKER == [kind |-> "Marker"]

NA == [kind |-> "NA"]

REMOVE == [kind |-> "Remove"]

Bool(b) == [kind |-> "bool", b |-> b]

\* a bare number (Python float)
Float(m) == [kind |-> "float", m |-> m]

\* units = "" stands for a Quantity without unit
Quantity(m, units) == [kind |-> "Quantity", m |-> m, units |-> units]

Str(s) == [kind |-> "str", s |-> s]

Uri(s) == [kind |-> "Uri", s |-> s]

\* value = "" stands for a Ref without display text (has_value false)
Ref(name, value) == [kind |-> "Ref", name |-> name, value |-> value]

List(items) == [kind |-> "list", items |-> items]

\* items: a sequence of [key, val], in insertion order
Dict(items) == [kind |-> "dict", entries |-> items]

\* column: a sequence of [key, val] (name, column metadata), in insertion
\* order; metadata: a sequence of [key, val]; rows: a sequence of rows, each
\* a sequence of [key, val]
Grid(version, metadata, column, rows) ==
    [kind |-> "Grid", version |-> version, metadata |-> metadata,
     column |-> column, rows |-> rows]

\* an object of a class the codec does not know
Unknown == [kind |-> "object"]

KV(k, v) == [key |-> k, val |-> v]

Keys(items) == [i \in 1..Len(items) |-> items[i].key]

\* dict lookup: the value of the last entry with that key
HasKey(items, k) == \E i \in 1..Len(items) : items[i].key = k

Get(items, k) ==
    IF HasKey(items, k)
    THEN items[CHOOSE i \in 1..Len(items) :
                  items[i].key = k /\ \A j \in (i+1)..Len(items) : items[j].key # k].val
    ELSE None

(***************************************************************************)
(* Protocol versions, in tenths: 20 is "2.0", 30 is "3.0"                  *)
(***************************************************************************)
VER_2_0 == 20

VER_3_0 == 30

LATEST_VER == 30

(***************************************************************************)
(* Text pieces.  A text is a sequence of pieces: literal characters, a     *)
(* number formatted by '%f' (fixed point, six decimals), a number          *)
(* formatted by str(), or a version formatted by str().                    *)
(***************************************************************************)
Chars(s) == [p |-> "chars", s |-> s, n |-> 0]

\* '%f' % n
FmtF(n) == [p |-> "%f", s |-> "", n |-> n]

\* str(n) of a Python float
StrFloat(n) == [p |-> "str(float)", s |-> "", n |-> n]

\* str(b) of a Python bool: 'True' / 'False'
StrBool(b) == [p |-> "chars", s |-> IF b THEN "True" ELSE "False", n |-> 0]

\* str(version)
StrVersion(v) == [p |-> "str(Version)", s |-> "", n |-> v]

(***************************************************************************)
(* JSON values, the results of _dump_scalar; Raise is a raised exception   *)
(***************************************************************************)
JNull == [j |-> "null"]

JBool(b) == [j |-> "bool", b |-> b]

JStr(text) == [j |-> "string", text |-> text]

JArr(items) == [j |-> "array", items |-> items]

JObj(entries) == [j |-> "object", entries |-> entries]

Raise(exc) == [j |-> "raise", exc |-> exc]

IsRaise(x) == x.j = "raise"

\* a Python str (the result of json.dumps)
PyStr(text) == [j |-> "pystr", text |-> text]

\* the first exception raised while the items were computed in order, if any
FirstRaise(items) ==
    IF \E i \in 1..Len(items) : IsRaise(items[i])
    THEN items[CHOOSE i \in 1..Len(items) :
                  IsRaise(items[i]) /\ \A k \in 1..(i-1) : ~IsRaise(items[k])]
    ELSE JNull

AnyRaise(items) == \E i \in 1..Len(items) : IsRaise(items[i])

\* d[k] = v on an insertion-ordered dict
DictSet(entries, k, v) ==
    IF HasKey(entries, k)
    THEN [i \in 1..Len(entries) |->
             IF entries[i].key = k THEN KV(k, v) ELSE entries[i]]
    ELSE Append(entries, KV(k, v))

\* the sentinel strings imported from jsonparser
MARKER_STR == "MARKER_STR"

NA_STR == "NA_STR"

REMOVE2_STR == "REMOVE2_STR"

REMOVE3_STR == "REMOVE3_STR"

_dump_id(id_str) == id_str

_dump_str(str_value) == JStr(<<Chars("s:"), Chars(str_value.s)>>)

_dump_uri(uri_value) == JStr(<<Chars("u:"), Chars(uri_value.s)>>)

_dump_bin(bin_value) == JStr(<<Chars("b:"), Chars(bin_value.s)>>)

_dump_xstr(xstr_value) ==
    JStr(<<Chars("x:"), Chars(xstr_value.encoding), Chars(":"), Chars(xstr_value.s)>>)

_dump_decimal(decimal) == JStr(<<Chars("n:"), FmtF(decimal)>>)

_dump_quantity(quantity) ==
    IF quantity.units = ""
    THEN _dump_decimal(quantity.m)
    ELSE JStr(<<Chars("n:"), FmtF(quantity.m), Chars(" "), Chars(quantity.units)>>)

_dump_bool(bool_value) == JBool(bool_value.b)

_dump_coord(coordinate) ==
    JStr(<<Chars("c:"), FmtF(coordinate.latitude), Chars(","), FmtF(coordinate.longitude)>>)

_dump_ref(ref) ==
    IF ref.value # ""
    THEN JStr(<<Chars("r:"), Chars(ref.name), Chars(" "), Chars(ref.value)>>)
    ELSE JStr(<<Chars("r:"), Chars(ref.name)>>)

_dump_date(date) == JStr(<<Chars("d:"), Chars(date.s)>>)

_dump_time(time) == JStr(<<Chars("h:"), Chars(time.s)>>)

_dump_date_time(date_time) ==
    JStr(<<Chars("t:"), Chars(date_time.s), Chars(" "), Chars(date_time.tz)>>)

\* the list of the items, or the first exception raised computing them
ArrOrRaise(items) == IF AnyRaise(items) THEN FirstRaise(items) ELSE JArr(items)

\* the dict of the keys and values, or the first exception raised computing
\* the values
ObjOrRaise(keys, vals) ==
    IF AnyRaise(vals) THEN FirstRaise(vals)
    ELSE JObj([i \in 1..Len(vals) |-> KV(keys[i], vals[i])])

\* _meta['ver'] = str(version), for a grid's metadata
WithVer(items, version, for_grid) ==
    IF AnyRaise([i \in 1..Len(items) |-> items[i].val])
    THEN FirstRaise([i \in 1..Len(items) |-> items[i].val])
    ELSE IF for_grid
         THEN JObj(DictSet(items, "ver", JStr(<<StrVersion(version)>>)))
         ELSE JObj(items)

\* _meta['name'] = col
WithName(_meta, col) ==
    IF IsRaise(_meta) THEN _meta
    ELSE JObj(DictSet(_meta.entries, "name", JStr(<<Chars(col)>>)))

\* the columns of the grid that the row holds, in column order
RowColumns(grid, row) ==
    SelectSeq(Keys(grid.column), LAMBDA c : HasKey(row, c))

\* the dict literal of _dump_grid_to_json, its values computed in order
GridObject(meta, cols, rows) ==
    IF IsRaise(meta) THEN meta
    ELSE IF IsRaise(cols) THEN cols
    ELSE IF IsRaise(rows) THEN rows
    ELSE JObj(<<KV("meta", meta), KV("cols", cols), KV("rows", rows)>>)

RECURSIVE _dump_scalar(_, _), _dump_list(_, _), _dump_dict(_, _),
          _dump_grid_to_json(_), _dump_meta(_, _, _), _dump_meta_item(_, _),
          _dump_columns(_, _), _dump_column(_, _, _), _dump_rows(_),
          _dump_row(_, _)

_dump_scalar(scalar, version) ==
    CASE scalar.kind = "None" -> JNull
      [] scalar.kind = "Marker" -> JStr(<<Chars(MARKER_STR)>>)
      [] scalar.kind = "NA" ->
            IF version < VER_3_0 THEN Raise("ValueError")
            ELSE JStr(<<Chars(NA_STR)>>)
      [] scalar.kind = "Remove" ->
            IF version < VER_3_0 THEN JStr(<<Chars(REMOVE2_STR)>>)
            ELSE JStr(<<Chars(REMOVE3_STR)>>)
      [] scalar.kind = "list" -> _dump_list(scalar, version)
      [] scalar.kind = "dict" -> _dump_dict(scalar, version)
      [] scalar.kind = "bool" -> _dump_bool(scalar)
      [] scalar.kind = "Ref" -> _dump_ref(scalar)
      [] scalar.kind = "Bin" -> _dump_bin(scalar)
      [] scalar.kind = "XStr" -> _dump_xstr(scalar)
      [] scalar.kind = "Uri" -> _dump_uri(scalar)
      [] scalar.kind = "str" -> _dump_str(scalar)
      [] scalar.kind = "datetime" -> _dump_date_time(scalar)
      [] scalar.kind = "time" -> _dump_time(scalar)
      [] scalar.kind = "date" -> _dump_date(scalar)
      [] scalar.kind = "Coordinate" -> _dump_coord(scalar)
      [] scalar.kind = "Quantity" -> _dump_quantity(scalar)
      [] scalar.kind = "float" -> _dump_decimal(scalar.m)
      [] scalar.kind = "Grid" -> _dump_grid_to_json(scalar)
      [] OTHER -> Raise("NotImplementedError")

_dump_list(lst, version) ==
    IF version < VER_3_0 THEN Raise("ValueError")
    ELSE ArrOrRaise([i \in 1..Len(lst.items) |-> _dump_scalar(lst.items[i], version)])

_dump_dict(dic, version) ==
    IF version < VER_3_0 THEN Raise("ValueError")
    ELSE ObjOrRaise(Keys(dic.entries),
                    [i \in 1..Len(dic.entries) |->
                        _dump_scalar(dic.entries[i].val, version)])

_dump_meta_item(item, version) ==
    KV(_dump_id(item.key), _dump_scalar(item.val, version))

_dump_meta(meta, version, for_grid) ==
    WithVer([i \in 1..Len(meta) |-> _dump_meta_item(meta[i], version)],
            version, for_grid)

_dump_column(col, col_meta, version) ==
    WithName(IF col_meta # <<>> THEN _dump_meta(col_meta, version, FALSE)
             ELSE JObj(<<>>),
             col)

\* zip(*items) of an empty column set is empty, and map() of one argument
\* raises TypeError
_dump_columns(cols, version) ==
    IF cols = <<>> THEN Raise("TypeError")
    ELSE ArrOrRaise([i \in 1..Len(cols) |->
                        _dump_column(cols[i].key, cols[i].val, version)])

_dump_row(grid, row) ==
    ObjOrRaise(RowColumns(grid, row),
               [i \in 1..Len(RowColumns(grid, row)) |->
                   _dump_scalar(Get(row, RowColumns(grid, row)[i]), grid.version)])

_dump_rows(grid) ==
    ArrOrRaise([i \in 1..Len(grid.rows) |-> _dump_row(grid, grid.rows[i])])

_dump_grid_to_json(grid) ==
    GridObject(_dump_meta(grid.metadata, grid.version, TRUE),
               _dump_columns(grid.column, grid.version),
               _dump_rows(grid))

RECURSIVE json_dumps(_), JoinComma(_)
JoinComma(texts) ==
    IF texts = <<>> THEN <<>>
    ELSE IF Len(texts) = 1 THEN texts[1]
    ELSE texts[1] \o <<Chars(", ")>> \o JoinComma(Tail(texts))

\* json.dumps(obj): the JSON text of a JSON value
json_dumps(obj) ==
    CASE obj.j = "null" -> <<Chars("null")>>
      [] obj.j = "bool" -> <<Chars(IF obj.b THEN "true" ELSE "false")>>
      [] obj.j = "string" -> <<Chars("\"")>> \o obj.text \o <<Chars("\"")>>
      [] obj.j = "array" ->
            <<Chars("[")>>
            \o JoinComma([i \in 1..Len(obj.items) |-> json_dumps(obj.items[i])])
            \o <<Chars("]")>>
      [] obj.j = "object" ->
            <<Chars("{")>>
            \o JoinComma([i \in 1..Len(obj.entries) |->
                   <<Chars("\""), Chars(obj.entries[i].key), Chars("\""), Chars(": ")>>
                   \o json_dumps(obj.entries[i].val)])
            \o <<Chars("}")>>

\* json.dumps(obj) unless computing obj raised
Dumps(obj) == IF IsRaise(obj) THEN obj ELSE PyStr(json_dumps(obj))

dump_scalar(scalar, version) == Dumps(_dump_scalar(scalar, version))

dump_grid(grid) == Dumps(_dump_grid_to_json(grid))

(***************************************************************************)
(* Filter AST (hszinc.filter_ast): FilterPath, FilterUnary, FilterBinary   *)
(***************************************************************************)
FilterPath(paths) == [type |-> "FilterPath", paths |-> paths]

FilterUnary(operator, right) ==
    [type |-> "FilterUnary", operator |-> operator, right |-> right]

FilterBinary(operator, left, right) ==
    [type |-> "FilterBinary", operator |-> operator, left |-> left, right |-> right]

\* isinstance(x, FilterNode): every AST class derives from FilterNode; a
\* literal (a record with a kind) does not
IsFilterNode(x) == "type" \in DOMAIN x

IsType(x, type) == IsFilterNode(x) /\ x.type = type

\* isinstance(node, FilterBinary) and node.operator in ["and", "or"]
IsAndOr(node) == IsType(node, "FilterBinary") /\ node.operator \in {"and", "or"}

(***************************************************************************)
(* SQL tokens                                                              *)
(***************************************************************************)
Tok(k, a, b, s, op, lit, ver) ==
    [k |-> k, a |-> a, b |-> b, s |-> s, op |-> op, lit |-> lit, ver |-> ver]

\* "\n"
NL == Tok("NL", 0, 0, "", "", <<>>, NoTime)

\* "-- {grid_filter}"
TComment == Tok("COMMENT", 0, 0, "", "", <<>>, NoTime)

\* "SELECT t{a}.entity"
TSelect(a) == Tok("SELECT", a, 0, "", "", <<>>, NoTime)

\* "FROM {table_name} as t{a}"
TFrom(table_name, a) == Tok("FROM", a, 0, table_name, "", <<>>, NoTime)

\* "INNER JOIN {table_name} AS t{a} ON"
TJoin(table_name, a) == Tok("JOIN", a, 0, table_name, "", <<>>, NoTime)

\* "WHERE"
TWhere == Tok("WHERE", 0, 0, "", "", <<>>, NoTime)

\* "LIMIT {limit}"
TLimit(limit) == Tok("LIMIT", limit, 0, "", "", <<>>, NoTime)

\* "AND " / "OR "
TKeyword(op) == Tok(op, 0, 0, "", "", <<>>, NoTime)

TLParen == Tok("(", 0, 0, "", "", <<>>, NoTime)

TRParen == Tok(")", 0, 0, "", "", <<>>, NoTime)

\* "'{version.isoformat()}' BETWEEN datetime(t{a}.start_datetime)
\*                          AND datetime(t{a}.end_datetime)"
TVersion(version, a) == Tok("VERSION", a, 0, "", "", <<>>, version)

\* "t{a}.customer_id='{customer_id}'"
TCustomer(a, customer_id) == Tok("CUSTOMER", a, 0, customer_id, "", <<>>, NoTime)

\* "json_object(json(t{b}.entity),'$.{path}') = json_object(json(t{a}.entity),'$.id')"
TJoinOn(b, path, a) == Tok("JOINON", a, b, path, "", <<>>, NoTime)

\* "json_extract(json(t{a}.entity),'$.{tag}') IS NOT NULL"
TIsNotNull(a, tag) == Tok("ISNOTNULL", a, 0, tag, "", <<>>, NoTime)

\* "json_extract(json(t{a}.entity),'$.{tag}') IS NULL"
TIsNull(a, tag) == Tok("ISNULL", a, 0, tag, "", <<>>, NoTime)

\* "CAST(substr(json_extract(json(t{a}.entity),'$.{tag}'),3) AS REAL)"
TCast(a, tag) == Tok("CAST", a, 0, tag, "", <<>>, NoTime)

\* " {op} {value}"
TRelOp(op, value) == Tok("RELOP", 0, 0, "", op, value, NoTime)

\* "json_extract(json(t{a}.entity),'$.{tag}') {op} '{v}'"
TCompare(a, tag, op, v) == Tok("COMPARE", a, 0, tag, op, v, NoTime)

\* the upper-cased operator keyword
upper(op) == IF op = "and" THEN "AND" ELSE IF op = "or" THEN "OR" ELSE op

(***************************************************************************)
(* SQL compiler (providers/db_sqlite.py).  The compiler state is the       *)
(* triple (num_table, select, where) threaded through the recursion;       *)
(* select and where are lists of fragments; err tells a failed assert or   *)
(* an exception of the codec.                                              *)
(***************************************************************************)
St(num_table, select, where) ==
    [err |-> FALSE, num_table |-> num_table, select |-> select, where |-> where]

Failed(exc) == [err |-> TRUE, exc |-> exc]

\* the fragments are strings, never lists: _flatten returns l[:1] + _flatten(l[1:])
RECURSIVE _flatten(_)
_flatten(l) == IF l = <<>> THEN l ELSE <<Head(l)>> \o _flatten(Tail(l))

_select_version(version, num_table) == <<TVersion(version, num_table), NL>>

\* the loop body of _generate_path for one hop: the new select and where
HopSelect(table_name, select, where, n, first) ==
    IF first
    THEN Append(select, <<TJoin(table_name, n), NL>>)
    ELSE Append(Append(select, Join(_flatten(where))), <<TJoin(table_name, n), NL>>)

HopWhere(customer_id, version, where, path, n, first) ==
    (IF first THEN where ELSE <<>>)
    \o << _select_version(version, n),
          <<TKeyword("AND"), TCustomer(n, customer_id), NL>>,
          <<TKeyword("AND"), TJoinOn(n - 1, path, n), NL>> >>

\* the loop of _generate_path from node.paths[i] on
RECURSIVE PathLoop(_, _, _, _, _, _, _, _, _)
PathLoop(table_name, customer_id, version, select, where, node, num_table, first, i) ==
    IF i > Len(node.paths) - 1
    THEN St(num_table, select, where)
    ELSE PathLoop(table_name, customer_id, version,
                  HopSelect(table_name, select, where, num_table + 1, first),
                  HopWhere(customer_id, version, where, node.paths[i],
                           num_table + 1, first),
                  node, num_table + 1, FALSE, i + 1)

\* where.append(fragment) on a compiler state
Emit(r, fragment) == St(r.num_table, r.select, Append(r.where, fragment))

\* _generate_path with the loop over node.paths[1:-1]: the first hop is lost
_generate_path_skipping_first_hop(table_name, customer_id, version, select, where, node, num_table) ==
    IF Len(node.paths) = 1
    THEN St(num_table, select, where)
    ELSE Emit(PathLoop(table_name, customer_id, version, select, where,
                       node, num_table, TRUE, 2),
              <<TKeyword("AND")>>)

_generate_path(table_name, customer_id, version, select, where, node, num_table) ==
    IF Len(node.paths) = 1
    THEN St(num_table, select, where)
    ELSE Emit(PathLoop(table_name, customer_id, version, select, where,
                       node, num_table, TRUE, 1),
              <<TKeyword("AND")>>)

\* f"{value}" of the comparison operand after a Quantity was replaced by
\* its magnitude
FormatValue(value) ==
    IF value.kind = "bool" THEN <<StrBool(value.b)>> ELSE <<StrFloat(value.m)>>

\* value = node.right; if isinstance(value, Quantity): value = value.value
Unquantity(value) == IF value.kind = "Quantity" THEN Float(value.m) ELSE value

\* isinstance(value, (int, float)); bool is a subclass of int
IsIntOrFloat(value) == value.kind \in {"float", "bool"}

RelativeOps == {"<", "<=", ">", ">="}

\* lines 111-114, after the path was generated into r
NumericTest(r, node, value) ==
    St(r.num_table, r.select,
       r.where \o << <<TCast(r.num_table, Last(node.left.paths))>>,
                     <<TRelOp(node.operator, FormatValue(value)), NL>> >>)

\* lines 122-132, after the path was generated into r; v is the dumped value
StringTest(r, node, v) ==
    IF IsRaise(v) THEN Failed(v.exc)
    ELSE IF v.j = "None"
    THEN IF node.operator = "!="
         THEN Emit(r, <<TIsNotNull(r.num_table, Last(node.left.paths)), NL>>)
         ELSE Emit(r, <<TIsNull(r.num_table, Last(node.left.paths)), NL>>)
    ELSE Emit(r, <<TCompare(r.num_table, Last(node.left.paths), node.operator,
                            v.text), NL>>)

\* the comparison node, lines 101-132
GenerateComparison(table_name, customer_id, version, select, where, node, num_table) ==
    IF IsIntOrFloat(Unquantity(node.right)) /\ node.operator \notin {"==", "!="}
    THEN NumericTest(_generate_path(table_name, customer_id, version,
                                    select, where, node.left, num_table),
                     node, Unquantity(node.right))
    ELSE IF node.operator \notin {"==", "!="}
    THEN Failed("AssertionError")
    ELSE StringTest(_generate_path(table_name, customer_id, version,
                                   select, where, node.left, num_table),
                    node, dump_scalar(Unquantity(node.right), LATEST_VER))

\* lines 63 and 71, after the path was generated into r
UnaryTest(r, node) ==
    IF node.operator = "has"
    THEN Emit(r, <<TIsNotNull(r.num_table, Last(node.right.paths)), NL>>)
    ELSE Emit(r, <<TIsNull(r.num_table, Last(node.right.paths)), NL>>)

\* lines 77-79 and 90-92: the where list a side is compiled into
OpenSide(where, side) == IF IsAndOr(side) THEN Append(where, <<TLParen>>) ELSE where

\* lines 85-89: the where list after the left side was compiled into l
AfterLeft(l, node) ==
    IF IsAndOr(node.left)
    THEN << ButLast(Join(_flatten(l.where))),
            <<TRParen, NL, TKeyword(upper(node.operator))>> >>
    ELSE Append(l.where, <<TKeyword(upper(node.operator))>>)

\* lines 98-99: the state after the right side was compiled into r
AfterRight(r, node) ==
    IF r.err THEN r
    ELSE IF IsAndOr(node.right)
    THEN St(r.num_table, r.select,
            << ButLast(Join(_flatten(r.where))), <<TRParen, NL>> >>)
    ELSE r

RECURSIVE _generate_filter_in_sql(_, _, _, _, _, _, _), GenerateRight(_, _, _, _, _)
\* lines 85-99: the right side, compiled after the left side gave l
GenerateRight(table_name, customer_id, version, l, node) ==
    IF l.err THEN l
    ELSE AfterRight(_generate_filter_in_sql(table_name, customer_id, version,
                                            l.select,
                                            OpenSide(AfterLeft(l, node), node.right),
                                            node.right, l.num_table),
                    node)

_generate_filter_in_sql(table_name, customer_id, version, select, where, node, num_table) ==
    IF IsType(node, "FilterUnary")
    THEN IF node.operator \notin {"has", "not"} \/ ~IsType(node.right, "FilterPath")
         THEN Failed("AssertionError")
         ELSE UnaryTest(_generate_path(table_name, customer_id, version,
                                       select, where, node.right, num_table),
                        node)
    ELSE IF IsType(node, "FilterBinary")
    THEN IF node.operator \in {"and", "or"}
         THEN GenerateRight(table_name, customer_id, version,
                            _generate_filter_in_sql(table_name, customer_id, version,
                                                    select,
                                                    OpenSide(where, node.left),
                                                    node.left, num_table),
                            node)
         ELSE GenerateComparison(table_name, customer_id, version,
                                 select, where, node, num_table)
    ELSE Failed("AssertionError")

\* lines 173-180: the text of the compiled state r
BlockText(r, init_num_table, limit) ==
    IF r.err THEN r
    ELSE [err |-> FALSE,
          num_table |-> r.num_table,
          sql |-> Join(_flatten(r.select))
                  \o (IF init_num_table = r.num_table THEN <<TWhere, NL>> ELSE <<>>)
                  \o Join(_flatten(r.where))
                  \o (IF limit > 0 THEN <<TLimit(limit), NL>> ELSE <<>>)]

\* returns (num_table, generated_sql), or the exception
_generate_sql_block(table_name, customer_id, version, limit, node, num_table) ==
    BlockText(_generate_filter_in_sql(
                  table_name, customer_id, version,
                  << <<NL, TSelect(num_table), NL, TFrom(table_name, num_table), NL>> >>,
                  << _select_version(version, num_table)
                     \o <<TKeyword("AND"), TCustomer(num_table, customer_id), NL,
                          TKeyword("AND")>> >>,
                  node, num_table),
              num_table, limit)

\* f'-- {grid_filter}{sql}'
WithComment(r) == IF r.err THEN r ELSE [err |-> FALSE, sql |-> <<TComment>> \o r.sql]

\* the second definition of _sql_filter (line 183) replaces the first
_sql_filter(table_name, node, version, limit, customer_id) ==
    WithComment(_generate_sql_block(table_name, customer_id, version, limit, node, 1))

(***************************************************************************)
(* The entity table and the meaning of the generated SQL on it.            *)
(* A row is [id, customer_id, start_datetime, end_datetime, entity]; the   *)
(* entity column is a JSON object, a sequence of [key, val].               *)
(* The generated conditions hold no NOT, so a NULL result is read as       *)
(* false without changing which rows are selected.                         *)
(***************************************************************************)
Row(id, customer_id, start_datetime, end_datetime, entity) ==
    [id |-> id, customer_id |-> customer_id, start_datetime |-> start_datetime,
     end_datetime |-> end_datetime, entity |-> entity]

SqlNull == [sql |-> "NULL"]

SqlText(text) == [sql |-> "TEXT", text |-> text]

SqlInteger(n) == [sql |-> "INTEGER", n |-> n]

\* json_extract(json(entity), '$.tag')
json_extract(entity, tag) ==
    IF ~HasKey(entity, tag) THEN SqlNull
    ELSE LET v == Get(entity, tag)
         IN  CASE v.j = "null" -> SqlNull
               [] v.j = "string" -> SqlText(v.text)
               [] v.j = "bool" -> SqlInteger(IF v.b THEN 1 ELSE 0)
               [] OTHER -> SqlText(json_dumps(v))

\* CAST(substr(x, 3) AS REAL): the numeral that follows a two-character
\* prefix, 0.0 when no numeral follows
CastSubstr3(x) ==
    IF x.sql = "TEXT" /\ Len(x.text) >= 2 /\ x.text[2].p = "%f"
    THEN x.text[2].n ELSE 0

\* the value of the text after the operator, read as an SQL literal
SqlLiteral(text) ==
    IF text[1].p = "chars" THEN (IF text[1].s = "True" THEN 1 ELSE 0)
    ELSE text[1].n

RelOp(op, x, y) ==
    CASE op = "<" -> x < y
      [] op = "<=" -> x <= y
      [] op = ">" -> x > y
      [] op = ">=" -> x >= y

\* the test of _select_version on one row
ValidityTest(version, row) ==
    BETWEEN(isoformat(version), sql_datetime(row.start_datetime),
            sql_datetime(row.end_datetime))

\* asg maps each alias number to a row
EvalAtom(t, asg) ==
    CASE t.k = "VERSION" -> ValidityTest(t.ver, asg[t.a])
      [] t.k = "CUSTOMER" -> asg[t.a].customer_id = t.s
      [] t.k = "JOINON" ->
            \* two one-member JSON objects: the labels are the entity
            \* texts, the values the strings '$.{path}' and '$.id'
            asg[t.b].entity = asg[t.a].entity /\ t.s = "id"
      [] t.k = "ISNOTNULL" -> json_extract(asg[t.a].entity, t.s) # SqlNull
      [] t.k = "ISNULL" -> json_extract(asg[t.a].entity, t.s) = SqlNull
      [] t.k = "COMPARE" ->
            LET x == json_extract(asg[t.a].entity, t.s)
            IN  /\ x # SqlNull
                /\ IF t.op = "==" THEN x = SqlText(t.lit) ELSE x # SqlText(t.lit)

EvalCast(t, rel, asg) ==
    LET x == json_extract(asg[t.a].entity, t.s)
    IN  x # SqlNull /\ RelOp(rel.op, CastSubstr3(x), SqlLiteral(rel.lit))

AtomKinds == {"VERSION", "CUSTOMER", "JOINON", "ISNOTNULL", "ISNULL", "COMPARE"}

Bad == [ok |-> FALSE, val |-> FALSE, rest |-> <<>>]

Parsed(val, rest) == [ok |-> TRUE, val |-> val, rest |-> rest]

\* a parenthesised expression e was read: the closing parenthesis
CloseParen(e) ==
    IF e.ok /\ e.rest # <<>> /\ Head(e.rest).k = ")"
    THEN Parsed(e.val, Tail(e.rest)) ELSE Bad

\* SQL expression grammar: OR binds weaker than AND, parentheses group
RECURSIVE ParseExpr(_, _), ExprTail(_, _), ParseTerm(_, _), TermTail(_, _),
          ParseFactor(_, _), AndFactor(_, _), OrTerm(_, _)
ParseFactor(toks, asg) ==
    IF toks = <<>> THEN Bad
    ELSE CASE Head(toks).k = "(" -> CloseParen(ParseExpr(Tail(toks), asg))
           [] Head(toks).k = "CAST" ->
                IF Len(toks) >= 2 /\ toks[2].k = "RELOP"
                THEN Parsed(EvalCast(toks[1], toks[2], asg), SubSeq(toks, 3, Len(toks)))
                ELSE Bad
           [] Head(toks).k \in AtomKinds -> Parsed(EvalAtom(Head(toks), asg), Tail(toks))
           [] OTHER -> Bad

\* acc AND the factor f read after it
AndFactor(acc, f) == IF acc.ok /\ f.ok THEN Parsed(acc.val /\ f.val, f.rest) ELSE Bad

\* acc OR the term f read after it
OrTerm(acc, f) == IF acc.ok /\ f.ok THEN Parsed(acc.val \/ f.val, f.rest) ELSE Bad

TermTail(acc, asg) ==
    IF acc.ok /\ acc.rest # <<>> /\ Head(acc.rest).k = "AND"
    THEN TermTail(AndFactor(acc, ParseFactor(Tail(acc.rest), asg)), asg)
    ELSE acc

ParseTerm(toks, asg) == TermTail(ParseFactor(toks, asg), asg)

ExprTail(acc, asg) ==
    IF acc.ok /\ acc.rest # <<>> /\ Head(acc.rest).k = "OR"
    THEN ExprTail(OrTerm(acc, ParseTerm(Tail(acc.rest), asg)), asg)
    ELSE acc

ParseExpr(toks, asg) == ExprTail(ParseTerm(toks, asg), asg)

\* the condition is a complete expression
Complete(e) == e.ok /\ e.rest = <<>>

\* the statement without its line breaks and its comment line
Significant(sql) == SelectSeq(sql, LAMBDA t : t.k \notin {"NL", "COMMENT"})

\* the positions that open a condition: each JOIN ... ON and the WHERE
ClauseStarts(toks) == {i \in 1..Len(toks) : toks[i].k \in {"JOIN", "WHERE"}}

\* the condition opened at position i: up to the next JOIN, WHERE or LIMIT
ClauseOf(toks, i) ==
    LET stops == {j \in (i+1)..Len(toks) : toks[j].k \in {"JOIN", "WHERE", "LIMIT"}}
        stop  == IF stops = {} THEN Len(toks) + 1
                 ELSE CHOOSE j \in stops : \A k \in stops : j <= k
    IN  SubSeq(toks, i + 1, stop - 1)

\* the aliases the statement declares
Aliases(toks) == {toks[i].a : i \in {j \in 1..Len(toks) : toks[j].k \in {"FROM", "JOIN"}}}

\* SQLite accepts the statement: every condition is a complete expression
WellFormed(sql) ==
    LET toks == Significant(sql)
        some == [a \in Aliases(toks) |->
                    Row("", "", NoTime, NoTime, <<>>)]
    IN  \A i \in ClauseStarts(toks) : Complete(ParseExpr(ClauseOf(toks, i), some))

\* the assignment of rows to the aliases satisfies every ON and the WHERE
Satisfies(sql, asg) ==
    LET toks == Significant(sql)
    IN  \A i \in ClauseStarts(toks) : ParseExpr(ClauseOf(toks, i), asg).val

\* the rows of t1 the statement selects from the table, before LIMIT
Selected(sql, rows) ==
    LET toks == Significant(sql)
    IN  {asg[1] : asg \in {f \in [Aliases(toks) -> rows] : Satisfies(sql, f)}}

\* SELECT_ENTITY with (version, customer_id) bound to its placeholders
SELECT_ENTITY(version, customer_id, rows) ==
    {r \in rows :
        /\ BETWEEN(sql_bind(version), sql_datetime(r.start_datetime),
                   sql_datetime(r.end_datetime))
        /\ r.customer_id = customer_id}

\* CLOSE_ENTITY with (end, version, id, customer_id)
CLOSE_ENTITY(end, version, id, customer_id, rows) ==
    {IF /\ TextLt(sql_datetime(r.start_datetime), sql_bind(version))
        /\ r.end_datetime = EndOfTime
        /\ r.id = id
        /\ r.customer_id = customer_id
     THEN [r EXCEPT !.end_datetime = end] ELSE r : r \in rows}

\* INSERT_ENTITY with (id, customer_id, start, entity)
INSERT_ENTITY(id, customer_id, start, entity, rows) ==
    rows \cup {Row(id, customer_id, start, EndOfTime, entity)}

Min(x, y) == IF x <= y THEN x ELSE y

\* what the cursor holds after _exec_sql_filter: the possible results, one
\* per choice of the rows LIMIT keeps.  grid_filter is None or an AST.
\* cursor.execute(sql_request): the possible results
Execute(r, rows, limit) ==
    IF r.err THEN {[err |-> TRUE, exc |-> r.exc]}
    ELSE IF ~WellFormed(r.sql)
    THEN {[err |-> TRUE, exc |-> "OperationalError"]}
    ELSE IF limit > 0
    THEN {[err |-> FALSE, rows |-> sub] :
            sub \in {x \in SUBSET Selected(r.sql, rows) :
                        Cardinality(x) = Min(limit, Cardinality(Selected(r.sql, rows)))}}
    ELSE {[err |-> FALSE, rows |-> Selected(r.sql, rows)]}

_exec_sql_filter(rows, table_name, grid_filter, version, limit, customer_id) ==
    IF ~IsFilterNode(grid_filter)
    THEN {[err |-> FALSE, rows |-> SELECT_ENTITY(version, customer_id, rows)]}
    ELSE Execute(_sql_filter(table_name, grid_filter, version, limit, customer_id),
                 rows, limit)

(***************************************************************************)
(* Mongo compiler (providers/db_mongo.py).  An expression is a record      *)
(* tagged by its operator; a Python string is a text.                      *)
(***************************************************************************)
MStr(text) == [m |-> "str", text |-> text]

MNumber(n) == [m |-> "number", n |-> n]

MBool(b) == [m |-> "bool", b |-> b]

\* {"$cond": {"if": c, "then": t, "else": e}}
MCond(c, t, e) == [m |-> "$cond", if |-> c, then |-> t, else |-> e]

\* {"$not": x}
MNot(x) == [m |-> "$not", arg |-> x]

\* {op: [l, r]}
MOp(op, l, r) == [m |-> op, args |-> <<l, r>>]

MRaise(exc) == [m |-> "raise", exc |-> exc]

IsMRaise(x) == x.m = "raise"

_simple_ops(op) ==
    CASE op = "==" -> "$eq"
      [] op = "!=" -> "$ne"
      [] op = "and" -> "$and"
      [] op = "or" -> "$or"

_relative_ops(op) ==
    CASE op = "<" -> "$lt"
      [] op = "<=" -> "$lte"
      [] op = ">" -> "$gt"
      [] op = ">=" -> "$gte"

_to_float(scalar) ==
    IF scalar.kind = "Quantity" THEN MNumber(scalar.m)
    ELSE IF scalar.kind = "float" THEN MNumber(scalar.m)
    ELSE IF scalar.kind = "bool" THEN MBool(scalar.b)
    ELSE MRaise("ValueError")

\* the $let expression of lines 50-64; path is the text of "$<field>"
ToDouble(path) ==
    [m |-> "$let",
     vars |-> <<KV(Tail(path.text) \o <<Chars("_")>>,
                   [m |-> "$regexFind", input |-> path,
                    regex |-> "n:([-+]?([0-9]*[.])?[0-9]+([eE][-+]?\\d+)?)"])>>,
     in |-> [m |-> "$toDouble",
             arg |-> [m |-> "$arrayElemAt",
                      args |-> << MStr(<<Chars("$")>> \o path.text
                                       \o <<Chars("_"), Chars(".captures")>>),
                                  MNumber(0) >>]]]

\* line 33
ConvHas(c) == IF IsMRaise(c) THEN c ELSE MCond(c, 1, 0)

\* lines 35-39: right_expr is computed first; node is the FilterUnary itself
ConvNot(node, right_expr) ==
    IF IsMRaise(right_expr) THEN right_expr
    ELSE IF IsFilterNode(node) THEN MNot(right_expr)
    ELSE MCond(right_expr, 0, 1)

\* lines 44-47 with the two operands exchanged
ConvSimple_swapped(operator, l, r) ==
    IF IsMRaise(l) THEN l
    ELSE IF IsMRaise(r) THEN r
    ELSE MOp(_simple_ops(operator), r, l)

\* lines 44-47
ConvSimple(operator, l, r) ==
    IF IsMRaise(l) THEN l
    ELSE IF IsMRaise(r) THEN r
    ELSE MOp(_simple_ops(operator), l, r)

\* lines 49-69
ConvRelative(operator, path, m) ==
    IF IsMRaise(path) THEN path
    ELSE IF IsMRaise(m) THEN m
    ELSE MOp(_relative_ops(operator), ToDouble(path), m)

\* line 72
ConvScalar(v) == IF IsRaise(v) THEN MRaise(v.exc) ELSE MStr(v.text)

RECURSIVE _conv_filter(_)
_conv_filter(node) ==
    IF IsType(node, "FilterUnary") /\ node.operator = "has"
    THEN ConvHas(_conv_filter(node.right))
    ELSE IF IsType(node, "FilterUnary") /\ node.operator = "not"
    THEN ConvNot(node, _conv_filter(node.right))
    ELSE IF IsType(node, "FilterPath")
    THEN MStr(<<Chars("$"), Chars(node.paths[1])>>)
    ELSE IF IsType(node, "FilterBinary")
    THEN IF node.operator \in {"==", "!=", "and", "or"}
         THEN ConvSimple(node.operator, _conv_filter(node.left),
                         _conv_filter(node.right))
         ELSE IF node.operator \in RelativeOps
         THEN ConvRelative(node.operator, _conv_filter(node.left),
                           _to_float(node.right))
         ELSE MRaise("AssertionError")
    ELSE ConvScalar(dump_scalar(IF IsFilterNode(node) THEN Unknown ELSE node,
                                LATEST_VER))

\* [{"$match": {"$expr": e}}]
Pipeline(e) ==
    IF IsMRaise(e) THEN e
    ELSE [m |-> "pipeline", stages |-> << [match |-> [expr |-> e]] >>]

\* grid_filter is the parsed filter's head
_mongo_filter(grid_filter, version, limit, customer_id) ==
    Pipeline(_conv_filter(grid_filter))

(***************************************************************************)
(* Bounds and input sets                                                   *)
(***************************************************************************)
\* the longest path, in segments
MaxPathLen == 3

\* the most and/or nodes of a predicate tree
MaxOps == 2

Tags == {"a", "b"}

Customers == {"A", "B"}

Paths == UNION {[1..n -> Tags] : n \in 1..MaxPathLen}

Literals ==
    {None, MARKER, NA, REMOVE, Bool(TRUE), Float(20), Quantity(20, "kWh"),
     Quantity(5, ""), Str("Foo"), Uri("u"), Ref("p", ""), Ref("p", "dis")}

CompareOps == {"==", "!="} \cup RelativeOps

\* every unary and comparison node over the paths and the literals
Leaves ==
    {FilterUnary(op, FilterPath(p)) : op \in {"has", "not"}, p \in Paths}
    \cup {FilterBinary(op, FilterPath(p), lit) :
             op \in CompareOps, p \in Paths, lit \in Literals}

\* the leaves the and/or trees are built from
TreeLeaves ==
    {FilterUnary("not", FilterPath(<<"b">>)),
     FilterUnary("has", FilterPath(<<"a", "b">>)),
     FilterBinary("==", FilterPath(<<"a", "b", "a">>), Str("Foo")),
     FilterBinary(">", FilterPath(<<"b">>), Quantity(20, "kWh"))}

\* the trees with exactly k and/or nodes
RECURSIVE TreesWithOps(_)
TreesWithOps(k) ==
    IF k = 0 THEN TreeLeaves
    ELSE UNION {{FilterBinary(op, l, r) :
                    op \in {"and", "or"}, l \in TreesWithOps(i),
                    r \in TreesWithOps(k - 1 - i)} : i \in 0..(k - 1)}

Trees == UNION {TreesWithOps(k) : k \in 0..MaxOps}

SqlNodes == Leaves \cup Trees

T1 == [d |-> 1, s |-> 0]

SqlInputs ==
    [node : SqlNodes, customer_id : Customers, version : {T1}, limit : {0, 2}]

Idle == [err |-> FALSE]

(***************************************************************************)
(* SpecSql: one compilation of a predicate by the SQL compiler             *)
(***************************************************************************)
InitSql ==
    /\ pc = "start"
    /\ input \in SqlInputs
    /\ output = Idle
    /\ table = {}
    /\ now = NoTime
    /\ calls = <<>>

\* _sql_filter and the _generate_sql_block call it makes
SqlFilter ==
    /\ pc = "start"
    /\ pc' = "done"
    /\ output' = [block |-> _generate_sql_block("entity", input.customer_id,
                                                input.version, input.limit,
                                                input.node, 1),
                  request |-> _sql_filter("entity", input.node, input.version,
                                          input.limit, input.customer_id)]
    /\ UNCHANGED <<input, table, now, calls>>

NextSql == SqlFilter

SpecSql == InitSql /\ [][NextSql]_vars

(***************************************************************************)
(* Vocabulary of the claims about the SQL text                             *)
(***************************************************************************)
\* the unary and comparison nodes of a predicate, left to right
RECURSIVE LeafSeq(_)
LeafSeq(node) ==
    IF IsAndOr(node) THEN LeafSeq(node.left) \o LeafSeq(node.right) ELSE <<node>>

\* the path a unary or comparison node tests
PathOf(leaf) == IF IsType(leaf, "FilterUnary") THEN leaf.right.paths ELSE leaf.left.paths

RECURSIVE SumSeq(_)
SumSeq(q) == IF q = <<>> THEN 0 ELSE Head(q) + SumSeq(Tail(q))

\* the hops of the first i paths of the predicate: sum of (k - 1)
HopsBefore(node, i) ==
    SumSeq([j \in 1..i |-> Len(PathOf(LeafSeq(node)[j])) - 1])

Hops(node) == HopsBefore(node, Len(LeafSeq(node)))

TestKinds == {"ISNOTNULL", "ISNULL", "CAST", "COMPARE"}

\* the tests on a tag, the join equalities and the join clauses of a text
Tests(sql) == SelectSeq(sql, LAMBDA t : t.k \in TestKinds)

JoinOns(sql) == SelectSeq(sql, LAMBDA t : t.k = "JOINON")

Joins(sql) == SelectSeq(sql, LAMBDA t : t.k = "JOIN")

Compiled == pc = "done" /\ ~output.block.err

\* C3: a predicate whose paths have k_1..k_n segments compiles to a text with
\* exactly sum(k_i - 1) INNER JOIN clauses, whose aliases are t2, t3, ... in
\* this order; the returned alias counter is 1 + sum(k_i - 1); and every
\* alias, t1 included, has exactly one validity test and exactly one
\* tenant-equality test (and no other alias has any).
C3_JoinsAndMandatoryClauses ==
    Compiled =>
        LET sql == output.block.sql
            n   == Hops(input.node)
        IN  /\ Len(Joins(sql)) = n
            /\ \A i \in 1..Len(Joins(sql)) : Joins(sql)[i].a = i + 1
            /\ output.block.num_table = 1 + n
            /\ \A a \in 1..(n + 1) :
                  /\ Count(sql, LAMBDA t : t.k = "VERSION" /\ t.a = a) = 1
                  /\ Count(sql, LAMBDA t : t.k = "CUSTOMER" /\ t.a = a
                                           /\ t.s = input.customer_id) = 1
            /\ Count(sql, LAMBDA t : t.k = "VERSION") = n + 1
            /\ Count(sql, LAMBDA t : t.k = "CUSTOMER") = n + 1

\* a compiled predicate with several paths, one of them of three segments
C3_Witness ==
    /\ Compiled
    /\ Len(LeafSeq(input.node)) >= 3
    /\ \E i \in 1..Len(LeafSeq(input.node)) : Len(PathOf(LeafSeq(input.node)[i])) = 3
    /\ output.block.num_table >= 4

\* C2: every path is rooted at t1: the test of a single-segment path reads
\* t1; the first hop of a multi-segment path joins on the tag read from t1,
\* hop h on the alias hop h-1 reached, and the test reads the last alias
\* reached; wherever the path stands in the predicate.
C2_PathsRootedAtT1 ==
    Compiled =>
        LET sql    == output.block.sql
            leaves == LeafSeq(input.node)
        IN  \A i \in 1..Len(leaves) :
               LET path == PathOf(leaves[i])
                   k    == Len(path)
                   off  == HopsBefore(input.node, i - 1)
                   hop(h) == JoinOns(sql)[off + h]
               IN  /\ Tests(sql)[i].s = path[k]
                   /\ k = 1 => Tests(sql)[i].a = 1
                   /\ k > 1 =>
                        /\ hop(1).b = 1
                        /\ \A h \in 1..(k - 1) : hop(h).s = path[h]
                        /\ \A h \in 2..(k - 1) : hop(h).b = hop(h - 1).a
                        /\ Tests(sql)[i].a = hop(k - 1).a

\* the null literal of the filter language
EncodesToNull(lit) == _dump_scalar(lit, LATEST_VER) = JNull

IsComparison(node) == IsType(node, "FilterBinary") /\ node.operator \in CompareOps

\* C5: path == L with a literal that encodes to null compiles to IS NULL,
\* path != L to IS NOT NULL, and no comparison with a quoted literal appears.
C5_NullLiteralTest ==
    (/\ pc = "done"
     /\ IsComparison(input.node)
     /\ input.node.operator \in {"==", "!="}
     /\ EncodesToNull(input.node.right))
    => /\ ~output.block.err
       /\ Tests(output.block.sql)[1].k =
             (IF input.node.operator = "==" THEN "ISNULL" ELSE "ISNOTNULL")
       /\ Count(output.block.sql, LAMBDA t : t.k = "COMPARE") = 0

IsNumber(lit) == lit.kind \in {"float", "Quantity"}

\* C6: the branch of a comparison node: relative operator and Number literal
\* gives the CAST form compared with the magnitude; == and != give a test
\* on the encoded string, never the CAST form; a relative operator with any
\* other literal is rejected and no text is returned.
C6_ComparisonBranch ==
    (pc = "done" /\ IsComparison(input.node)) =>
        LET op  == input.node.operator
            lit == input.node.right
            sql == output.block.sql
        IN  /\ (op \in RelativeOps /\ IsNumber(lit)) =>
                  /\ ~output.block.err
                  /\ Tests(sql)[1].k = "CAST"
                  /\ \E i \in 1..Len(sql) :
                        /\ sql[i].k = "RELOP" /\ sql[i].op = op
                        /\ sql[i].lit = <<StrFloat(lit.m)>>
            /\ (op \in {"==", "!="}) =>
                  /\ ~output.block.err
                  /\ Tests(sql)[1].k \in {"COMPARE", "ISNULL", "ISNOTNULL"}
                  /\ Count(sql, LAMBDA t : t.k \in {"CAST", "RELOP"}) = 0
            /\ (op \in RelativeOps /\ ~IsNumber(lit)) => output.block.err

(***************************************************************************)
(* SpecStore: the entity table under updates, and one query on it.         *)
(* An update of an entity runs CLOSE_ENTITY and INSERT_ENTITY with the     *)
(* same instant, the pair the two statements are written for; updates      *)
(* carry increasing instants.                                              *)
(***************************************************************************)
\* the last day of the calendar of the model
MaxDay == 2

\* the most rows of the table
MaxRows == 2

Times == {[d |-> d, s |-> s] : d \in 1..MaxDay, s \in {0, 1}}

Ids == {"e1"}

\* the stored entity documents
StoreEntities ==
    {<<KV("a", _dump_scalar(MARKER, LATEST_VER))>>,
     <<KV("b", _dump_scalar(Quantity(20, "kWh"), LATEST_VER))>>}

\* the filters of the queries; None is the request without a filter
StoreFilters ==
    {None,
     FilterUnary("has", FilterPath(<<"a">>)),
     FilterBinary("or", FilterUnary("has", FilterPath(<<"a">>)),
                        FilterUnary("has", FilterPath(<<"b">>))),
     FilterBinary("and", FilterUnary("not", FilterPath(<<"a">>)),
                         FilterBinary(">", FilterPath(<<"b">>), Float(5))),
     FilterUnary("has", FilterPath(<<"id", "b">>))}

Requests ==
    [grid_filter : StoreFilters, version : Times, limit : {0, 1},
     customer_id : Customers]

InitStore ==
    /\ pc = "open"
    /\ input = [grid_filter |-> None, version |-> NoTime, limit |-> 0,
                customer_id |-> ""]
    /\ output = Idle
    /\ table = {}
    /\ now = NoTime
    /\ calls = <<>>

UpdateEntity ==
    /\ pc = "open"
    /\ Cardinality(table) < MaxRows
    /\ \E id \in Ids, customer_id \in Customers, t \in Times, entity \in StoreEntities :
          /\ TimeLt(now, t)
          /\ table' = INSERT_ENTITY(id, customer_id, t, entity,
                                    CLOSE_ENTITY(t, t, id, customer_id, table))
          /\ now' = t
    /\ UNCHANGED <<pc, input, output, calls>>

ExecSqlFilter ==
    /\ pc = "open"
    /\ \E req \in Requests :
          /\ input' = req
          /\ output' \in _exec_sql_filter(table, "entity", req.grid_filter,
                                          req.version, req.limit, req.customer_id)
    /\ pc' = "done"
    /\ UNCHANGED <<table, now, calls>>

NextStore == UpdateEntity \/ ExecSqlFilter

SpecStore == InitStore /\ [][NextStore]_vars

\* C1: no row of another tenant satisfies the generated condition: every
\* row a query of a tenant selects is a row of that tenant, whatever the
\* predicate.
C1_TenantIsolation ==
    (pc = "done" /\ ~output.err) =>
        \A r \in output.rows : r.customer_id = input.customer_id

\* start <= as_of < end
HalfOpen(version, row) ==
    TimeLe(row.start_datetime, version) /\ TimeLt(version, row.end_datetime)

\* C4: the validity test of the compiler and the one of SELECT_ENTITY hold
\* exactly when start <= as_of < end, so a version closed at T is not
\* selected as of T, and at most one version of an entity is selected.
C4_HalfOpenWindow ==
    (pc = "done" /\ ~output.err) =>
        /\ \A r \in table :
              ValidityTest(input.version, r) <=> HalfOpen(input.version, r)
        /\ ~IsFilterNode(input.grid_filter) =>
              \A r \in table :
                 (r.customer_id = input.customer_id /\ HalfOpen(input.version, r))
                 <=> r \in output.rows
        /\ \A r1, r2 \in {r \in table : ValidityTest(input.version, r)} :
              (r1.id = r2.id /\ r1.customer_id = r2.customer_id) => r1 = r2
        /\ \A r1, r2 \in SELECT_ENTITY(input.version, input.customer_id, table) :
              r1.id = r2.id => r1 = r2

(***************************************************************************)
(* SpecMongo: one compilation of a predicate by the Mongo compiler         *)
(***************************************************************************)
InitMongo ==
    /\ pc = "start"
    /\ input \in SqlInputs
    /\ output = Idle
    /\ table = {}
    /\ now = NoTime
    /\ calls = <<>>

MongoFilter ==
    /\ pc = "start"
    /\ pc' = "done"
    /\ output' = _mongo_filter(input.node, input.version, input.limit,
                               input.customer_id)
    /\ UNCHANGED <<input, table, now, calls>>

NextMongo == MongoFilter

SpecMongo == InitMongo /\ [][NextMongo]_vars

IsRelative(node) == IsType(node, "FilterBinary") /\ node.operator \in RelativeOps

\* every relative comparison of the tree has a Number literal
NumericRelatives(node) ==
    \A i \in 1..Len(LeafSeq(node)) :
       IsRelative(LeafSeq(node)[i]) => IsNumber(LeafSeq(node)[i].right)

\* "$" + the first segment of the path
FieldOf(path) == MStr(<<Chars("$"), Chars(path.paths[1])>>)

OperatorName(op) ==
    CASE op = "and" -> "$and" [] op = "or" -> "$or"
      [] op = "==" -> "$eq"   [] op = "!=" -> "$ne"
      [] op = "<" -> "$lt"    [] op = "<=" -> "$lte"
      [] op = ">" -> "$gt"    [] op = ">=" -> "$gte"

\* td converts to a double the numeral a regex captures from the field: the
\* $let binds one variable to the $regexFind on the field, and its body is
\* the $toDouble of the first capture of that variable
IsToDoubleOf(td, field) ==
    /\ td.m = "$let"
    /\ Len(td.vars) = 1
    /\ td.vars[1].val.m = "$regexFind"
    /\ td.vars[1].val.input = field
    /\ td.in.m = "$toDouble"
    /\ td.in.arg.m = "$arrayElemAt"
    /\ td.in.arg.args = << MStr(<<Chars("$"), Chars("$")>> \o td.vars[1].key
                                \o <<Chars(".captures")>>),
                           MNumber(0) >>

\* e is the structural translation of node, as far as the rules for a path,
\* has, and, or, ==, != and a relative comparison with a Number fix it
RECURSIVE StructuralTranslation(_, _)
StructuralTranslation(node, e) ==
    IF IsType(node, "FilterPath")
    THEN e = FieldOf(node)
    ELSE IF IsType(node, "FilterUnary") /\ node.operator = "has"
    THEN /\ e.m = "$cond"
         /\ e.then = 1
         /\ e.else = 0
         /\ StructuralTranslation(node.right, e.if)
    ELSE IF IsType(node, "FilterBinary") /\ node.operator \in {"and", "or", "==", "!="}
    THEN /\ e.m = OperatorName(node.operator)
         /\ Len(e.args) = 2
         /\ StructuralTranslation(node.left, e.args[1])
         /\ StructuralTranslation(node.right, e.args[2])
    ELSE IF IsRelative(node) /\ IsNumber(node.right)
    THEN /\ e.m = OperatorName(node.operator)
         /\ Len(e.args) = 2
         /\ IsToDoubleOf(e.args[1], FieldOf(node.left))
         /\ e.args[2] = MNumber(node.right.m)
    ELSE TRUE

C10_NotPathIsConditionalInverse ==
    (/\ pc = "done"
     /\ IsType(input.node, "FilterUnary")
     /\ input.node.operator = "not"
     /\ IsType(input.node.right, "FilterPath"))
    => /\ ~IsMRaise(output)
       /\ output.stages[1].match.expr = MCond(FieldOf(input.node.right), 0, 1)

(***************************************************************************)
(* SpecCodec: one encoding of a value by dump_scalar or dump_grid          *)
(***************************************************************************)
\* the longest list
MaxLen == 2

\* the most rows of a grid
MaxGridRows == 2

Versions == {VER_2_0, VER_3_0}

CodecAtoms ==
    {None, MARKER, NA, REMOVE, Bool(TRUE), Str("Foo"), Quantity(20, "kWh"), Unknown}

ListItems == {None, NA, Str("Foo")}

Lists == {List(q) : q \in UNION {[1..n -> ListItems] : n \in 0..MaxLen}}

Dicts == {Dict(<<>>)} \cup {Dict(<<KV("k", x)>>) : x \in ListItems}

\* the column sets: none, one, two in either insertion order, with and
\* without column metadata
ColumnSets ==
    {<<>>,
     <<KV("a", <<>>)>>,
     <<KV("a", <<>>), KV("b", <<KV("m", MARKER)>>)>>,
     <<KV("b", <<>>), KV("a", <<>>)>>}

\* the rows with at most two of the keys, in either insertion order; "z" is
\* never the name of a column
RowsOver(cells) ==
    {<<>>}
    \cup {<<KV(k, v)>> : k \in {"a", "b", "z"}, v \in cells}
    \cup {<<KV(k.x, v), KV(k.y, w)>> :
             k \in {k \in [x : {"a", "b", "z"}, y : {"a", "b", "z"}] : k.x # k.y},
             v \in cells, w \in cells}

SeqsUpTo(S, n) == UNION {[1..i -> S] : i \in 0..n}

\* the grids of scalars that no version rejects
PlainGrids ==
    {Grid(v, <<KV("dis", Str("Foo"))>>, c, r) :
        v \in Versions, c \in ColumnSets,
        r \in SeqsUpTo(RowsOver({None, Str("Foo")}), MaxGridRows)}

\* the grids with NA, a List or a Dict in the metadata, in the metadata of a
\* column or in a cell
GatedGrids ==
    {Grid(v, m, <<KV("a", cm)>>, <<<<KV("a", x)>>>>) :
        v \in Versions, m \in {<<>>, <<KV("x", NA)>>},
        cm \in {<<>>, <<KV("m", List(<<>>))>>},
        x \in {Str("Foo"), NA, Dict(<<>>), Unknown}}

\* a grid in a cell of a grid, and a grid in a list
NestedGrids ==
    {Grid(v, <<>>, <<KV("a", <<>>)>>, <<<<KV("a", g)>>>>) :
        v \in Versions, g \in GatedGrids}
    \cup {List(<<g>>) : g \in GatedGrids}

CodecValues ==
    CodecAtoms \cup Lists \cup Dicts \cup PlainGrids \cup GatedGrids \cup NestedGrids

InitCodec ==
    /\ pc = "start"
    /\ input \in [value : CodecValues, version : Versions]
    /\ output = Idle
    /\ table = {}
    /\ now = NoTime
    /\ calls = <<>>

\* dump_scalar(value, version)
DumpScalar ==
    /\ pc = "start"
    /\ pc' = "done"
    /\ output' = [op |-> "dump_scalar",
                  version |-> input.version,
                  json |-> _dump_scalar(input.value, input.version),
                  text |-> dump_scalar(input.value, input.version)]
    /\ UNCHANGED <<input, table, now, calls>>

\* dump_grid(value): the version is the one of the grid
DumpGrid ==
    /\ pc = "start"
    /\ input.value.kind = "Grid"
    /\ pc' = "done"
    /\ output' = [op |-> "dump_grid",
                  version |-> input.value.version,
                  json |-> _dump_grid_to_json(input.value),
                  text |-> dump_grid(input.value)]
    /\ UNCHANGED <<input, table, now, calls>>

NextCodec == DumpScalar \/ DumpGrid

SpecCodec == InitCodec /\ [][NextCodec]_vars

\* the values of the entries
Vals(items) == [i \in 1..Len(items) |-> items[i].val]

\* the values a value holds directly: the items of a list, the values of a
\* dict, and of a grid the values of its metadata, of the metadata of its
\* columns, and the cells of its rows under its columns
Children(value) ==
    IF value.kind = "list" THEN Range(value.items)
    ELSE IF value.kind = "dict" THEN Range(Vals(value.entries))
    ELSE IF value.kind = "Grid"
    THEN Range(Vals(value.metadata))
         \cup UNION {Range(Vals(value.column[i].val)) : i \in 1..Len(value.column)}
         \cup UNION {{value.rows[i][k].val :
                         k \in {k \in 1..Len(value.rows[i]) :
                                   HasKey(value.column, value.rows[i][k].key)}} :
                     i \in 1..Len(value.rows)}
    ELSE {}

\* the value is or contains NA, a List or a Dict, at any depth
RECURSIVE ContainsGated(_)
ContainsGated(value) ==
    \/ value.kind \in {"NA", "list", "dict"}
    \/ \E c \in Children(value) : ContainsGated(c)

\* every scalar of the value is of a kind the codec supports
RECURSIVE AllSupported(_)
AllSupported(value) ==
    /\ value.kind # "object"
    /\ \A c \in Children(value) : AllSupported(c)

\* every grid of the value has a column
RECURSIVE AllHaveColumns(_)
AllHaveColumns(value) ==
    /\ value.kind = "Grid" => value.column # <<>>
    /\ \A c \in Children(value) : AllHaveColumns(c)

\* C7: encoding at a version below 3.0 a value that is or contains NA, a
\* List or a Dict at any depth (top level, grid metadata, row cell, nested
\* grid) fails with the version error and returns nothing; encoding at a
\* version >= 3.0 a value of supported scalars succeeds; Remove never fails
\* and encodes to the 2.0 sentinel below 3.0, to the 3.0 sentinel otherwise.
C7_VersionGating ==
    (pc = "done" /\ AllSupported(input.value) /\ AllHaveColumns(input.value)) =>
        /\ (output.version < VER_3_0 /\ ContainsGated(input.value)) =>
              (output.json = Raise("ValueError") /\ output.text = Raise("ValueError"))
        /\ output.version >= VER_3_0 =>
              (~IsRaise(output.json) /\ ~IsRaise(output.text))
        /\ input.value = REMOVE =>
              output.json = JStr(<<Chars(IF output.version < VER_3_0
                                         THEN REMOVE2_STR ELSE REMOVE3_STR)>>)

\* the columns of the grid that are keys of the row, in column order
ColumnsInRow(grid, row) ==
    SelectSeq([i \in 1..Len(grid.column) |-> grid.column[i].key],
              LAMBDA c : \E k \in 1..Len(row) : row[k].key = c)

\* the grid holds no grid, and nothing its version rejects
Encodable(grid) ==
    /\ AllSupported(grid)
    /\ \A c \in Children(grid) : c.kind # "Grid"
    /\ grid.version < VER_3_0 => ~ContainsGated(grid)

\* object is the encoding of row: its keys are the columns the row holds, in
\* column order, and a cell that is Null is null
IsRowObject(object, grid, row) ==
    /\ object.j = "object"
    /\ Keys(object.entries) = ColumnsInRow(grid, row)
    /\ \A k \in 1..Len(row) :
          (HasKey(grid.column, row[k].key) /\ row[k].val = None)
          => \E e \in 1..Len(object.entries) :
                object.entries[e] = KV(row[k].key, JNull)

\* cols has one object per column, in insertion order, named as the column
IsColumnArray(cols, grid) ==
    /\ cols.j = "array"
    /\ Len(cols.items) = Len(grid.column)
    /\ \A i \in 1..Len(grid.column) :
          /\ cols.items[i].j = "object"
          /\ Get(cols.items[i].entries, "name") = JStr(<<Chars(grid.column[i].key)>>)

IsRowArray(rows, grid) ==
    /\ rows.j = "array"
    /\ Len(rows.items) = Len(grid.rows)
    /\ \A i \in 1..Len(grid.rows) : IsRowObject(rows.items[i], grid, grid.rows[i])

\* C8: for every grid with any number of columns, none included, and any
\* rows of supported scalars, dump_grid succeeds; cols has exactly one
\* object per column, in insertion order, whose name is the column's; the
\* keys of each row object are the row's keys that are columns, in column
\* order; a Null cell is emitted as null and an absent one is omitted.
C8_GridAssembly ==
    (pc = "done" /\ output.op = "dump_grid" /\ Encodable(input.value)) =>
        /\ ~IsRaise(output.json)
        /\ ~IsRaise(output.text)
        /\ IsColumnArray(Get(output.json.entries, "cols"), input.value)
        /\ IsRowArray(Get(output.json.entries, "rows"), input.value)

(***************************************************************************)
(* SpecCalls: concurrent calls of _generate_sql_block.  calls[c] holds the *)
(* local variables of call c (num_table, select, where and the tree it was *)
(* given) and the work its recursion still has to do; one step of a call   *)
(* is the compilation of one leaf, or one of the three parts of an and/or  *)
(* node (before the left side, between the sides, after the right side).   *)
(***************************************************************************)
\* the most calls running at once
MaxCalls == 2

CallIds == 1..MaxCalls

CallInputs ==
    {[node |-> FilterBinary("or",
                   FilterBinary("and", FilterUnary("has", FilterPath(<<"a", "b">>)),
                                       FilterUnary("not", FilterPath(<<"b">>))),
                   FilterBinary(">", FilterPath(<<"b">>), Quantity(20, "kWh"))),
      customer_id |-> "A", version |-> T1, limit |-> 0],
     [node |-> FilterBinary("and",
                   FilterBinary("==", FilterPath(<<"a", "b", "a">>), Str("Foo")),
                   FilterBinary("or", FilterUnary("not", FilterPath(<<"b">>)),
                                      FilterUnary("has", FilterPath(<<"a", "b">>)))),
      customer_id |-> "B", version |-> T1, limit |-> 2],
     [node |-> FilterBinary("and", FilterUnary("has", FilterPath(<<"b", "a">>)),
                                   FilterBinary("<", FilterPath(<<"b">>), Str("Foo"))),
      customer_id |-> "B", version |-> T1, limit |-> 0]}

\* the work of the recursion: compile a node, or resume an and/or node
\* after its left or after its right side
ToCompile(node) == [k |-> "node", node |-> node]

AfterLeftOf(node) == [k |-> "left", node |-> node]

AfterRightOf(node) == [k |-> "right", node |-> node]

\* the local variables of a call and its pending work
Frame(st, node, work) == [st |-> st, node |-> node, work |-> work]

\* a call reads num_table, select and where of the state all calls share:
\* the alias counter is the one of the call that counted furthest
Locals_shared(all, c) ==
    St(CHOOSE n \in {all[d].st.num_table : d \in DOMAIN all} :
           \A d \in DOMAIN all : all[d].st.num_table <= n,
       all[c].st.select, all[c].st.where)

\* a call reads its own num_table, select and where
Locals(all, c) == all[c].st

InitCalls ==
    /\ pc = [c \in CallIds |-> "start"]
    /\ input \in [CallIds -> CallInputs]
    /\ output = [c \in CallIds |-> Idle]
    /\ table = {}
    /\ now = NoTime
    /\ calls = [c \in CallIds |-> Frame(St(0, <<>>, <<>>), None, <<>>)]

\* lines 157-165: the call binds its parameters and creates its lists
Begin(c) ==
    /\ pc[c] = "start"
    /\ pc' = [pc EXCEPT ![c] = "run"]
    /\ calls' = [calls EXCEPT ![c] =
                    Frame(St(1,
                             << <<NL, TSelect(1), NL, TFrom("entity", 1), NL>> >>,
                             << _select_version(input[c].version, 1)
                                \o <<TKeyword("AND"), TCustomer(1, input[c].customer_id),
                                     NL, TKeyword("AND")>> >>),
                          input[c].node,
                          <<ToCompile(input[c].node)>>)]
    /\ UNCHANGED <<input, output, table, now>>

Running(c, k) == pc[c] = "run" /\ calls[c].work # <<>> /\ Head(calls[c].work).k = k

\* the frame of call c with the state st and the work items put in place of
\* the first one
Continue(c, st, items) == Frame(st, calls[c].node, items \o Tail(calls[c].work))

\* lines 76-84: an and/or node opens its left side
Descend(c) ==
    /\ Running(c, "node")
    /\ IsAndOr(Head(calls[c].work).node)
    /\ calls' = [calls EXCEPT ![c] =
                    Continue(c,
                             St(Locals(calls, c).num_table, Locals(calls, c).select,
                                OpenSide(Locals(calls, c).where,
                                         Head(calls[c].work).node.left)),
                             <<ToCompile(Head(calls[c].work).node.left),
                               AfterLeftOf(Head(calls[c].work).node)>>)]
    /\ UNCHANGED <<pc, input, output, table, now>>

\* the result r of a leaf: the call goes on, or the exception ends it
LeafDone(c, r) ==
    IF r.err
    THEN /\ pc' = [pc EXCEPT ![c] = "done"]
         /\ output' = [output EXCEPT ![c] = r]
         /\ calls' = [calls EXCEPT ![c] = Frame(calls[c].st, calls[c].node, <<>>)]
    ELSE /\ calls' = [calls EXCEPT ![c] = Continue(c, r, <<>>)]
         /\ UNCHANGED <<pc, output>>

\* lines 55-73 and 100-132: a unary or a comparison node
CompileLeaf(c) ==
    /\ Running(c, "node")
    /\ ~IsAndOr(Head(calls[c].work).node)
    /\ LeafDone(c, _generate_filter_in_sql("entity", input[c].customer_id,
                                           input[c].version,
                                           Locals(calls, c).select,
                                           Locals(calls, c).where,
                                           Head(calls[c].work).node,
                                           Locals(calls, c).num_table))
    /\ UNCHANGED <<input, table, now>>

\* lines 85-97: the left side is compiled, the node opens its right side
LeftDone(c) ==
    /\ Running(c, "left")
    /\ calls' = [calls EXCEPT ![c] =
                    Continue(c,
                             St(Locals(calls, c).num_table, Locals(calls, c).select,
                                OpenSide(AfterLeft(Locals(calls, c),
                                                   Head(calls[c].work).node),
                                         Head(calls[c].work).node.right)),
                             <<ToCompile(Head(calls[c].work).node.right),
                               AfterRightOf(Head(calls[c].work).node)>>)]
    /\ UNCHANGED <<pc, input, output, table, now>>

\* lines 98-99: the right side is compiled
RightDone(c) ==
    /\ Running(c, "right")
    /\ calls' = [calls EXCEPT ![c] =
                    Continue(c, AfterRight(Locals(calls, c), Head(calls[c].work).node),
                             <<>>)]
    /\ UNCHANGED <<pc, input, output, table, now>>

\* lines 173-180: the text is joined and returned
Return(c) ==
    /\ pc[c] = "run"
    /\ calls[c].work = <<>>
    /\ pc' = [pc EXCEPT ![c] = "done"]
    /\ output' = [output EXCEPT ![c] = BlockText(Locals(calls, c), 1, input[c].limit)]
    /\ UNCHANGED <<input, table, now, calls>>

NextCalls ==
    \E c \in CallIds :
       \/ Begin(c)
       \/ Descend(c)
       \/ CompileLeaf(c)
       \/ LeftDone(c)
       \/ RightDone(c)
       \/ Return(c)

SpecCalls == InitCalls /\ [][NextCalls]_vars

\* what the call returns when it runs alone
Alone(request) ==
    _generate_sql_block("entity", request.customer_id, request.version,
                        request.limit, request.node, 1)

\* C11: whatever the interleaving of the steps of concurrent
\* _generate_sql_block calls, every call returns exactly what it returns
\* when run alone (so no alias number or fragment of another call is in its
\* text), and the tree it was given is unchanged.
C11_CallsShareNoState ==
    \A c \in CallIds :
       /\ pc[c] = "done" => output[c] = Alone(input[c])
       /\ pc[c] # "start" => calls[c].node = input[c].node

\* a call returned its text while another call, given another request, was
\* in the middle of its compilation and had allocated aliases
C11_Witness ==
    \E c, d \in CallIds :
       /\ pc[c] = "done"
       /\ ~output[c].err
       /\ output[c].num_table >= 3
       /\ pc[d] = "run"
       /\ input[d] # input[c]
       /\ calls[d].st.num_table >= 2
       /\ calls[d].work # <<>>

(***************************************************************************)
(* The parentheses of the SQL text (SpecSql)                               *)
(***************************************************************************)
\* the AND that joins the mandatory tests of an alias, or that ends them:
\* the one before a tenant test or a join equality, and the one after
MandatoryAnd(toks, i) ==
    /\ toks[i].k = "AND"
    /\ \/ i < Len(toks) /\ toks[i + 1].k \in {"CUSTOMER", "JOINON"}
       \/ i > 1 /\ toks[i - 1].k \in {"CUSTOMER", "JOINON"}

\* the positions of the parentheses, the tests on a tag and the keywords
\* that combine them
SkeletonAt(toks) ==
    {i \in 1..Len(toks) :
        \/ toks[i].k \in {"(", ")"} \cup TestKinds
        \/ toks[i].k \in {"AND", "OR"} /\ ~MandatoryAnd(toks, i)}

RECURSIVE Pick(_, _, _)
\* the tokens of toks at the positions of S from i on, in order, a test
\* written "T"
Pick(toks, S, i) ==
    IF i > Len(toks) THEN <<>>
    ELSE (IF i \in S
          THEN <<IF toks[i].k \in TestKinds THEN "T" ELSE toks[i].k>>
          ELSE <<>>)
         \o Pick(toks, S, i + 1)

\* the generated predicate: its parentheses, tests and keywords
Skeleton(sql) == Pick(Significant(sql), SkeletonAt(Significant(sql)), 1)

RECURSIVE Grouping(_)
\* the grouping of the tree: an operand that is an and/or node stands in
\* one pair of parentheses
Grouping(node) ==
    IF IsAndOr(node)
    THEN (IF IsAndOr(node.left) THEN <<"(">> ELSE <<>>)
         \o Grouping(node.left)
         \o (IF IsAndOr(node.left) THEN <<")">> ELSE <<>>)
         \o <<upper(node.operator)>>
         \o (IF IsAndOr(node.right) THEN <<"(">> ELSE <<>>)
         \o Grouping(node.right)
         \o (IF IsAndOr(node.right) THEN <<")">> ELSE <<>>)
    ELSE <<"T">>

\* the parentheses of q up to position n: opened minus closed
Depth(q, n) ==
    Cardinality({i \in 1..n : q[i].k = "("}) - Cardinality({i \in 1..n : q[i].k = ")"})

\* every parenthesis of the clause closes one opened before it in the
\* clause, and none stays open
Balanced(q) == Depth(q, Len(q)) = 0 /\ \A n \in 1..Len(q) : Depth(q, n) >= 0

ClausesBalanced(toks) == \A i \in ClauseStarts(toks) : Balanced(ClauseOf(toks, i))

\* C12: for every and/or tree, with multi-segment paths or not, each operand
\* that is an and/or node stands in exactly one pair of parentheses, the
\* grouping of the generated predicate is the grouping of the tree, and the
\* parentheses are balanced within every ON / WHERE clause.
C12_ParenthesesWithinClauses ==
    (Compiled /\ IsAndOr(input.node)) =>
        /\ Skeleton(output.block.sql) = Grouping(input.node)
        /\ ClausesBalanced(Significant(output.block.sql))

(***************************************************************************)
(* SpecParity: one == or != comparison compiled by the SQL compiler and    *)
(* then by the Mongo compiler                                              *)
(***************************************************************************)
EqualityNodes ==
    {FilterBinary(op, FilterPath(p), lit) :
        op \in {"==", "!="}, p \in Paths, lit \in Literals}

InitParity ==
    /\ pc = "start"
    /\ input \in [node : EqualityNodes, customer_id : Customers, version : {T1},
                  limit : {0, 2}]
    /\ output = Idle
    /\ table = {}
    /\ now = NoTime
    /\ calls = <<>>

CompileSql ==
    /\ pc = "start"
    /\ pc' = "sql"
    /\ output' = [sql |-> _generate_sql_block("entity", input.customer_id,
                                              input.version, input.limit,
                                              input.node, 1)]
    /\ UNCHANGED <<input, table, now, calls>>

CompileMongo ==
    /\ pc = "sql"
    /\ pc' = "done"
    /\ output' = [sql |-> output.sql,
                  mongo |-> _mongo_filter(input.node, input.version, input.limit,
                                          input.customer_id)]
    /\ UNCHANGED <<input, table, now, calls>>

NextParity == CompileSql \/ CompileMongo

SpecParity == InitParity /\ [][NextParity]_vars

\* the literal the SQL text compares the tag with
SqlEmbedded(sql) == SelectSeq(sql, LAMBDA t : t.k = "COMPARE")[1].lit

\* the literal the pipeline compares the field with
MongoEmbedded(pipeline) == pipeline.stages[1].match.expr.args[2].text

\* the text of the encoding of the literal itself
EncodingOf(lit) == dump_scalar(lit, LATEST_VER).text

\* C13: for path == L and path != L with a non-null literal L both compilers
\* embed the same string, the encoding of L itself by the scalar codec; for
\* a Quantity with a unit it is n:<magnitude> <unit>, not the numeral alone.
C13_EqualityLiteralParity ==
    (pc = "done" /\ input.node.right # None) =>
        /\ ~output.sql.err
        /\ ~IsMRaise(output.mongo)
        /\ Len(SelectSeq(output.sql.sql, LAMBDA t : t.k = "COMPARE")) = 1
        /\ SqlEmbedded(output.sql.sql) = MongoEmbedded(output.mongo)
        /\ SqlEmbedded(output.sql.sql) = EncodingOf(input.node.right)
        /\ (input.node.right.kind = "Quantity" /\ input.node.right.units # "") =>
              SqlEmbedded(output.sql.sql)
                 = <<Chars("\""), Chars("n:"), FmtF(input.node.right.m), Chars(" "),
                     Chars(input.node.right.units), Chars("\"")>>

====
